---- MODULE Spec2Model ----
(***************************************************************************)
(* Decomposable execution traces of o1vm (legacy/trace.rs): the Trace and  *)
(* DecomposedTrace structures, the Tracer / DecomposableTracer operations  *)
(* of the Keccak and MIPS instantiations, and the Foldable conversion.     *)
(***************************************************************************)
EXTENDS Integers, Sequences, FiniteSets, TLC

(* ------------------------------ bounds -------------------------------- *)

\* Row capacity shared by every sub-trace (the `domain_size` argument of new).
DomainSize == 2

\* Number of relation columns (the const generic N_REL).
N_REL == 2

\* Number of group elements one SRS chunk covers, relative to the domain:
\* a commitment has ceil(DomainSize / SRSSize) chunks.
SRSSize == 1

(* ----------------------------- selectors ------------------------------ *)

\* The selector enumeration, in iteration order (Steps::iter() /
\* Instruction::iter()), which is also the key order of the BTreeMap.
SelectorIter == <<"SelA", "SelB">>

Selectors == {SelectorIter[i] : i \in 1..Len(SelectorIter)}

N_SEL == Len(SelectorIter)

\* Total number of columns (the const generic N = N_REL + N_SEL).
N == N_REL + N_SEL

\* usize::from(selector): the dense index of the selector, in [0, N_SEL).
SelectorIndex(s) == CHOOSE i \in 0..(N_SEL - 1) : SelectorIter[i + 1] = s

(* --------------------------- field elements --------------------------- *)

\* ScalarField::zero() and ScalarField::one().
Zero == 0
One == 1

\* The relation rows used as inputs: Row(0) is the all-zero row, Row(v) for
\* v > 0 holds v, v+1, ... so that its columns differ from each other.
Row(v) == [i \in 1..N_REL |-> IF v = 0 THEN Zero ELSE v + i - 1]

\* The rows offered to push_row and pad_with_row: the all-zero row and a
\* row that differs from it on every column.
Rows == {Row(0), Row(1)}

Max2(a, b) == IF a >= b THEN a ELSE b

\* n copies of x: (0..n).map(|_| x)
Repeat(x, n) == [j \in 1..n |-> x]

(* -------------------------------- Vec --------------------------------- *)
\* A column is a Vec of field elements. push_row compares len() with
\* capacity(), so a sub-trace carries, next to the contents of its N
\* columns, the capacity of each relation column; the capacity of a
\* selector column is read by no operation and is not tracked.

\* The allocator hands out room for one element more than asked for.
VecWithCapacityRoomier(c) == c + 1

\* Vec::with_capacity(c).capacity()
VecWithCapacity(c) == c

\* The capacity of a Vec of capacity `cap` once it holds `required`
\* elements (amortized growth; never shrinks).
VecGrow(cap, required) ==
    IF required <= cap THEN cap ELSE Max2(4, Max2(2 * cap, required))

(* ------------------- interpreter (external collaborator) -------------- *)

\* KeccakEnv::constraints_of(step) / the constraints interpret_instruction
\* leaves in the environment for one instruction.
ConstraintsOf(s) == <<[selector |-> s, constraint |-> 1], [selector |-> s, constraint |-> 2]>>

\* KeccakEnv::lookups_of(step) / env.get_lookups() for one instruction.
LookupsOf(s) == <<[selector |-> s, lookup |-> 1]>>

\* The MIPS constraint environment: scratch lists of constraints and lookups.
EmptyEnv == [constraints |-> <<>>, lookups |-> <<>>]

\* interpret_instruction(env, instr) adds the instruction's constraints and
\* lookups to the environment.
InterpretInstruction(env, instr) ==
    [constraints |-> env.constraints \o ConstraintsOf(instr),
     lookups |-> env.lookups \o LookupsOf(instr)]

\* env.reset()
EnvReset(env) == EmptyEnv

(* ----------------------- Trace (one sub-circuit) ---------------------- *)

\* Witness { cols: from_fn(|_| Vec::with_capacity(domain_size)) }
NewWitness(domain_size) == [cols |-> [i \in 1..N |-> <<>>]]

\* The capacities the relation columns are allocated with.
NewCapacity(domain_size) == [i \in 1..N_REL |-> VecWithCapacity(domain_size)]

\* KeccakTrace::init
KeccakInit(domain_size, selector) ==
    [domain_size |-> domain_size,
     witness |-> NewWitness(domain_size),
     capacity |-> NewCapacity(domain_size),
     constraints |-> ConstraintsOf(selector),
     lookups |-> LookupsOf(selector)]

\* init leaves the environment as interpreting the instruction left it.
MIPSInitWithoutReset(domain_size, instr, env) ==
    LET e1 == InterpretInstruction(env, instr)
    IN [trace |-> [domain_size |-> domain_size,
                   witness |-> NewWitness(domain_size),
                   capacity |-> NewCapacity(domain_size),
                   constraints |-> e1.constraints,
                   lookups |-> e1.lookups],
        env |-> e1]

\* MIPSTrace::init: the trace and the environment it leaves behind.
MIPSInit(domain_size, instr, env) ==
    LET e1 == InterpretInstruction(env, instr)
    IN [trace |-> [domain_size |-> domain_size,
                   witness |-> NewWitness(domain_size),
                   capacity |-> NewCapacity(domain_size),
                   constraints |-> e1.constraints,
                   lookups |-> e1.lookups],
        env |-> EnvReset(e1)]

\* Vec::push on column i of the sub-trace.
ColPush(t, i, x) ==
    [t EXCEPT !.witness.cols[i] = Append(@, x),
              !.capacity = [j \in 1..N_REL |->
                              IF j = i THEN VecGrow(@[j], Len(t.witness.cols[i]) + 1)
                              ELSE @[j]]]

\* Vec::extend on every column of the sub-trace in `columns`, each with its
\* own elements xs[i].
ColsExtend(t, columns, xs) ==
    [t EXCEPT !.witness.cols = [i \in 1..N |-> IF i \in columns THEN @[i] \o xs[i] ELSE @[i]],
              !.capacity = [j \in 1..N_REL |->
                              IF j \in columns
                              THEN VecGrow(@[j], Len(t.witness.cols[j]) + Len(xs[j]))
                              ELSE @[j]]]

\* The push_row loop from column i on, without its capacity test.
RECURSIVE PushRowFromUnchecked(_, _, _)
PushRowFromUnchecked(t, row, i) ==
    IF i > Len(row) THEN t
    ELSE PushRowFromUnchecked(ColPush(t, i, row[i]), row, i + 1)

\* The push_row loop from column i on:
\* if cols[i].len() < cols[i].capacity() { cols[i].push(*value) }
RECURSIVE PushRowFrom(_, _, _)
PushRowFrom(t, row, i) ==
    IF i > Len(row) THEN t
    ELSE PushRowFrom(IF Len(t.witness.cols[i]) < t.capacity[i]
                     THEN ColPush(t, i, row[i])
                     ELSE t,
                     row, i + 1)

\* push_row without the capacity test.
TracePushRowUnchecked(t, row) == PushRowFromUnchecked(t, row, 1)

\* push_row stops one column short of the row.
TracePushRowSkipLast(t, row) == PushRowFrom(t, SubSeq(row, 1, Len(row) - 1), 1)

\* push_row on a full sub-trace starts the relation columns over.
TracePushRowWrapping(t, row) ==
    IF Len(t.witness.cols[1]) >= t.domain_size
    THEN PushRowFrom([t EXCEPT !.witness.cols =
                         [i \in 1..N |-> IF i <= N_REL THEN <<>> ELSE @[i]]],
                     row, 1)
    ELSE PushRowFrom(t, row, 1)

\* KeccakTrace::push_row / MIPSTrace::push_row (the two bodies are the same)
TracePushRow(t, row) == PushRowFrom(t, row, 1)

\* for _ in 0..n { self.push_row((), row) }
RECURSIVE PushRowTimes(_, _, _)
PushRowTimes(t, row, n) ==
    IF n = 0 THEN t ELSE PushRowTimes(TracePushRow(t, row), row, n - 1)

\* The result of a Trace-level padding operation: the trace afterwards,
\* the returned count, and whether the call panicked.
PadResult(t, ret, panic) == [trace |-> t, ret |-> ret, panic |-> panic]

\* pad_with_row pushes one row fewer than it reports.
TracePadWithRowShort(t, row) ==
    LET len == Len(t.witness.cols[1])
        rows_to_add == t.domain_size - len
    IN IF len > t.domain_size
       THEN PadResult(t, 0, TRUE)
       ELSE PadResult(PushRowTimes(t, row, Max2(rows_to_add - 1, 0)), rows_to_add, FALSE)

\* pad_with_row fills the selector columns with zeros along with the rows.
TracePadWithRowAllColumns(t, row) ==
    LET len == Len(t.witness.cols[1])
        rows_to_add == t.domain_size - len
    IN IF len > t.domain_size
       THEN PadResult(t, 0, TRUE)
       ELSE PadResult(ColsExtend(PushRowTimes(t, row, rows_to_add), (N_REL + 1)..N,
                                 [i \in 1..N |-> Repeat(Zero, rows_to_add)]),
                      rows_to_add, FALSE)

\* KeccakTrace::pad_with_row / MIPSTrace::pad_with_row
TracePadWithRow(t, row) ==
    LET len == Len(t.witness.cols[1])
        rows_to_add == t.domain_size - len
    IN IF len > t.domain_size
       THEN PadResult(t, 0, TRUE)                      \* assert!(len <= domain_size)
       ELSE PadResult(PushRowTimes(t, row, rows_to_add), rows_to_add, FALSE)

\* pad_with_zeros extends by a whole domain whatever the current length.
TracePadWithZerosWholeDomain(t) ==
    LET len == Len(t.witness.cols[1])
    IN IF len > t.domain_size
       THEN PadResult(t, 0, TRUE)
       ELSE PadResult(ColsExtend(t, 1..N, [i \in 1..N |-> Repeat(Zero, t.domain_size)]),
                      t.domain_size, FALSE)

\* pad_with_zeros extends relation column 0 and the selector columns only.
TracePadWithZerosFirstColumn(t) ==
    LET len == Len(t.witness.cols[1])
        rows_to_add == t.domain_size - len
    IN IF len > t.domain_size
       THEN PadResult(t, 0, TRUE)
       ELSE PadResult(ColsExtend(t, {1} \cup ((N_REL + 1)..N),
                                 [i \in 1..N |-> Repeat(Zero, rows_to_add)]),
                      rows_to_add, FALSE)

\* KeccakTrace::pad_with_zeros / MIPSTrace::pad_with_zeros: every column of
\* witness.cols is extended, the selector columns included.
TracePadWithZeros(t) ==
    LET len == Len(t.witness.cols[1])
        rows_to_add == t.domain_size - len
    IN IF len > t.domain_size
       THEN PadResult(t, 0, TRUE)                      \* assert!(len <= domain_size)
       ELSE PadResult(ColsExtend(t, 1..N, [i \in 1..N |-> Repeat(Zero, rows_to_add)]),
                      rows_to_add, FALSE)

\* pad_dummy pads with the all-zero row instead of the first stored row.
TracePadDummyZeroRow(t) ==
    IF \E i \in 1..N_REL : Len(t.witness.cols[i]) = 0
    THEN PadResult(t, 0, TRUE)
    ELSE TracePadWithRow(t, [i \in 1..N_REL |-> Zero])

\* KeccakTrace::pad_dummy / MIPSTrace::pad_dummy:
\* row = from_fn(|i| cols[i][0]) panics (index out of bounds) on an empty
\* relation column.
TracePadDummy(t) ==
    IF \E i \in 1..N_REL : Len(t.witness.cols[i]) = 0
    THEN PadResult(t, 0, TRUE)
    ELSE TracePadWithRow(t, [i \in 1..N_REL |-> t.witness.cols[i][1]])

(* --------------------------- DecomposedTrace -------------------------- *)

\* The outcome of a DecomposedTrace operation: the circuit afterwards, the
\* returned count (0 for operations returning unit) and whether it panicked.
OpResult(c, ret, panic) == [circuit |-> c, ret |-> ret, panic |-> panic]

\* Put the outcome of a Trace-level operation back under its selector.
Lift(c, selector, r) ==
    OpResult([c EXCEPT !.trace[selector] = r.trace], r.ret, r.panic)

\* Whether the map holds a sub-trace for the selector.
Present(c, selector) == selector \in DOMAIN c.trace

\* A missing sub-trace is taken for one nothing has to be done to.
UnwrapOrSkip(c, selector, r) ==
    IF Present(c, selector) THEN r ELSE OpResult(c, 0, FALSE)

\* self[selector] and self.trace.get_mut(&selector).unwrap(), the first step
\* of every operation addressed to a selector: a panic when the map holds no
\* sub-trace under the selector, and the operation's outcome r otherwise.
Unwrap(c, selector, r) ==
    IF Present(c, selector) THEN r ELSE OpResult(c, 0, TRUE)

\* DecomposedTrace::number_of_rows: the length of relation column 0.
NumberOfRows(c, opcode) == Len(c.trace[opcode].witness.cols[1])

\* DecomposedTrace::in_circuit
InCircuit(c, opcode) == NumberOfRows(c, opcode) # 0

\* DecomposedTrace::is_full
IsFull(c, opcode) == c.domain_size = NumberOfRows(c, opcode)

\* reset clears the relation columns only.
ResetRelationColumns(c, opcode) ==
    [c EXCEPT !.trace[opcode].witness.cols =
        [i \in 1..N |-> IF i <= N_REL THEN <<>> ELSE @[i]]]

\* reset puts a sub-trace without constraints or lookups in place.
ResetWholeTrace(c, opcode) ==
    [c EXCEPT !.trace[opcode] =
        [@ EXCEPT !.witness.cols = [i \in 1..N |-> <<>>],
                  !.constraints = <<>>, !.lookups = <<>>]]

\* reset puts fresh unallocated columns in place: the capacity is lost.
ResetDroppingCapacity(c, opcode) ==
    [c EXCEPT !.trace[opcode] =
        [@ EXCEPT !.witness.cols = [i \in 1..N |-> <<>>],
                  !.capacity = [i \in 1..N_REL |-> 0]]]

\* DecomposedTrace::reset: witness.cols.iter_mut().for_each(Vec::clear);
\* Vec::clear empties a column and keeps its capacity.
Reset(c, opcode) ==
    [c EXCEPT !.trace[opcode].witness.cols = [i \in 1..N |-> <<>>]]

\* DecomposedTrace::set_selector_column: for i in N_REL..N (0-based), the
\* column i gets number_of_rows ones if i == usize::from(selector), else
\* number_of_rows zeros. Column i of the code is cols[i + 1] here.
SetSelectorColumn(c, selector, number_of_rows) ==
    [c EXCEPT !.trace[selector] =
        ColsExtend(@, (N_REL + 1)..N,
                   [j \in 1..N |->
                       IF j - 1 = SelectorIndex(selector)
                       THEN Repeat(One, number_of_rows)
                       ELSE Repeat(Zero, number_of_rows)])]

\* impl Tracer for DecomposedTrace: push_row
PushRow(c, selector, row) ==
    OpResult([c EXCEPT !.trace[selector] = TracePushRow(@, row)], 0, FALSE)

\* pad_with_row without the in_circuit test.
PadWithRowUnguarded(c, selector, row) ==
    Lift(c, selector, TracePadWithRow(c.trace[selector], row))

\* impl Tracer for DecomposedTrace: pad_with_row
PadWithRow(c, selector, row) ==
    IF ~InCircuit(c, selector)
    THEN OpResult(c, 0, FALSE)
    ELSE Lift(c, selector, TracePadWithRow(c.trace[selector], row))

\* pad_with_zeros without the in_circuit test.
PadWithZerosUnguarded(c, selector) ==
    Lift(c, selector, TracePadWithZeros(c.trace[selector]))

\* impl Tracer for DecomposedTrace: pad_with_zeros
PadWithZeros(c, selector) ==
    IF ~InCircuit(c, selector)
    THEN OpResult(c, 0, FALSE)
    ELSE Lift(c, selector, TracePadWithZeros(c.trace[selector]))

\* impl Tracer for DecomposedTrace: pad_dummy
PadDummy(c, selector) ==
    IF ~InCircuit(c, selector)
    THEN OpResult(c, 0, FALSE)
    ELSE Lift(c, selector, TracePadDummy(c.trace[selector]))

\* DecomposedKeccakTrace::pad_witnesses, from the k-th selector on:
\* for opcode in Steps::iter(): if in_circuit(opcode) { pad_dummy(()) }
RECURSIVE KeccakPadFrom(_, _)
KeccakPadFrom(c, k) ==
    IF k > Len(SelectorIter) THEN OpResult(c, 0, FALSE)
    ELSE LET opcode == SelectorIter[k]
         IN IF InCircuit(c, opcode)
            THEN LET r == Lift(c, opcode, TracePadDummy(c.trace[opcode]))
                 IN IF r.panic THEN OpResult(r.circuit, 0, TRUE)
                    ELSE KeccakPadFrom(r.circuit, k + 1)
            ELSE KeccakPadFrom(c, k + 1)

KeccakPadWitnesses(c) == KeccakPadFrom(c, 1)

\* DecomposedMIPSTrace::pad_witnesses, from the k-th selector on:
\* for opcode in Instruction::iter(): pad_dummy(()) -- no in_circuit test.
RECURSIVE MIPSPadFrom(_, _)
MIPSPadFrom(c, k) ==
    IF k > Len(SelectorIter) THEN OpResult(c, 0, FALSE)
    ELSE LET opcode == SelectorIter[k]
             r == Lift(c, opcode, TracePadDummy(c.trace[opcode]))
         IN IF r.panic THEN OpResult(r.circuit, 0, TRUE)
            ELSE MIPSPadFrom(r.circuit, k + 1)

MIPSPadWitnesses(c) == MIPSPadFrom(c, 1)

\* new gives each sub-trace a domain one row smaller than the parent's.
KeccakNewSmallerTraces(domain_size) ==
    [domain_size |-> domain_size,
     trace |-> [s \in Selectors |-> KeccakInit(domain_size - 1, s)]]

\* DecomposedKeccakTrace::new
KeccakNew(domain_size) ==
    [domain_size |-> domain_size,
     trace |-> [s \in Selectors |-> KeccakInit(domain_size, s)]]

\* The environment after the first k MIPSTrace::init calls of new.
RECURSIVE MIPSEnvAfter(_, _, _)
MIPSEnvAfter(domain_size, env, k) ==
    IF k = 0 THEN env
    ELSE MIPSInit(domain_size, SelectorIter[k], MIPSEnvAfter(domain_size, env, k - 1)).env

\* DecomposedMIPSTrace::new: the traces are initialized in iteration order,
\* each with the environment the previous init left.
MIPSNew(domain_size, env) ==
    [domain_size |-> domain_size,
     trace |-> [s \in Selectors |->
                  MIPSInit(domain_size, s,
                           MIPSEnvAfter(domain_size, env, SelectorIndex(s))).trace]]

(* ------------------- commitments and the transcript ------------------- *)
\* The commitment scheme and the sponge are external collaborators. A
\* commitment is identified with what it commits to (binding), the sponge
\* with the ordered history of what it absorbed and squeezed, and a
\* challenge with the history it was squeezed from.

\* Evaluations::from_vec_and_domain(w.to_vec(), domain)
FromVecAndDomain(w, domain) == [evals |-> w, domain |-> domain]

\* Number of chunks of a commitment over a domain of the given size.
NumChunks(domain) == Max2(1, (domain + SRSSize - 1) \div SRSSize)

\* srs.commit_evaluations_non_hiding(domain, w): a PolyComm of chunks.
CommitEvaluationsNonHiding(domain, w) ==
    [chunks |-> [k \in 1..NumChunks(domain) |-> [commits_to |-> w.evals, chunk |-> k]]]

\* PolyComm::get_first_chunk
GetFirstChunk(comm) == comm.chunks[1]

\* absorb_commitment(sponge, c): sponge.absorb_g(&c.chunks)
AbsorbCommitment(sponge, comm) ==
    sponge \o [k \in 1..Len(comm.chunks) |-> [ev |-> "absorb_g", g |-> comm.chunks[k]]]

\* fq_sponge.challenge(): the value drawn and the sponge afterwards.
Challenge(sponge) ==
    [value |-> [squeezed_from |-> sponge],
     sponge |-> Append(sponge, [ev |-> "challenge"])]

\* Alphas::new(alpha)
AlphasNew(alpha) == [alphas_seed |-> alpha]

\* FoldingCompatibleExpr::from(constraint)
FoldingCompatibleExprFrom(x) == [folding_compatible |-> x]

\* The commitments are absorbed together, as a set.
AbsorbCommitmentsAsSet(sponge, commitments) ==
    Append(sponge, [ev |-> "absorb_g",
                    g |-> {commitments[i] : i \in DOMAIN commitments}])

\* The commitments are absorbed from the last column to the first.
RECURSIVE AbsorbCommitmentsReversed(_, _)
AbsorbCommitmentsReversed(sponge, commitments) ==
    IF commitments = <<>> THEN sponge
    ELSE AbsorbCommitmentsReversed(
             AbsorbCommitment(sponge, commitments[Len(commitments)]),
             SubSeq(commitments, 1, Len(commitments) - 1))

\* (&commitments).into_iter().for_each(|c| absorb_commitment(fq_sponge, c))
RECURSIVE AbsorbCommitments(_, _)
AbsorbCommitments(sponge, commitments) ==
    IF commitments = <<>> THEN sponge
    ELSE AbsorbCommitments(AbsorbCommitment(sponge, Head(commitments)), Tail(commitments))

\* n successive fq_sponge.challenge() calls: the values in the order drawn,
\* and the sponge afterwards.
RECURSIVE DrawChallenges(_, _)
DrawChallenges(sponge, n) ==
    IF n = 0 THEN [values |-> <<>>, sponge |-> sponge]
    ELSE LET d == Challenge(sponge)
             rest == DrawChallenges(d.sponge, n - 1)
         IN [values |-> <<d.value>> \o rest.values, sponge |-> rest.sponge]

\* alpha is taken from the first draw and beta, gamma, joint_combiner from
\* the three that follow.
FoldingInstanceAlphaFirst(commitments, drawn) ==
    [commitments |-> commitments,
     challenges |-> <<drawn[2], drawn[3], drawn[4]>>,
     alphas |-> AlphasNew(drawn[1]),
     blinder |-> One]

\* The FoldingInstance of to_folding_pair, from the first chunks of the
\* commitments and the four challenges in the order they were drawn:
\* beta, gamma, joint_combiner, alpha.
FoldingInstance(commitments, drawn) ==
    LET beta == drawn[1]
        gamma == drawn[2]
        joint_combiner == drawn[3]
        alpha == drawn[4]
    IN [commitments |-> commitments,
        challenges |-> <<beta, gamma, joint_combiner>>,
        alphas |-> AlphasNew(alpha),
        blinder |-> One]

\* to_folding_pair run on columns other than those of the sub-trace.
ToFoldingPairOfCols(cols, fq_sponge, domain) ==
    LET folding_witness ==
            [witness |-> [i \in 1..N |-> FromVecAndDomain(cols[i], domain)]]
        commitments ==
            [i \in 1..N |-> CommitEvaluationsNonHiding(domain, folding_witness.witness[i])]
        absorbed == AbsorbCommitments(fq_sponge, commitments)
        first_chunks == [i \in 1..N |-> GetFirstChunk(commitments[i])]
        d == DrawChallenges(absorbed, 4)
    IN [instance |-> FoldingInstance(first_chunks, d.values),
        witness |-> folding_witness,
        fq_sponge |-> d.sponge]

\* to_folding_pair takes the columns in reverse order.
ToFoldingPairReversedCols(c, selector, fq_sponge, domain) ==
    ToFoldingPairOfCols([i \in 1..N |-> c.trace[selector].witness.cols[N + 1 - i]],
                        fq_sponge, domain)

\* to_folding_pair fills short columns with zeros up to the domain size.
ToFoldingPairPadded(c, selector, fq_sponge, domain) ==
    ToFoldingPairOfCols(
        [i \in 1..N |->
            LET col == c.trace[selector].witness.cols[i]
            IN col \o Repeat(Zero, Max2(domain - Len(col), 0))],
        fq_sponge, domain)

\* to_folding_pair draws the challenges before it absorbs the commitments.
ToFoldingPairDrawsFirst(c, selector, fq_sponge, domain) ==
    LET folding_witness ==
            [witness |-> [i \in 1..N |->
                FromVecAndDomain(c.trace[selector].witness.cols[i], domain)]]
        commitments ==
            [i \in 1..N |-> CommitEvaluationsNonHiding(domain, folding_witness.witness[i])]
        d == DrawChallenges(fq_sponge, 4)
        first_chunks == [i \in 1..N |-> GetFirstChunk(commitments[i])]
    IN [instance |-> FoldingInstance(first_chunks, d.values),
        witness |-> folding_witness,
        fq_sponge |-> AbsorbCommitments(d.sponge, commitments)]

\* to_folding_pair reads the sub-trace of the first selector, whichever
\* selector it is asked for.
ToFoldingPairOfFirstSelector(c, selector, fq_sponge, domain) ==
    ToFoldingPairOfCols(c.trace[SelectorIter[1]].witness.cols, fq_sponge, domain)

\* Foldable::to_folding_pair: the instance, the witness and the sponge the
\* call leaves.
ToFoldingPair(c, selector, fq_sponge, domain) ==
    LET folding_witness ==
            [witness |-> [i \in 1..N |->
                FromVecAndDomain(c.trace[selector].witness.cols[i], domain)]]
        commitments ==
            [i \in 1..N |-> CommitEvaluationsNonHiding(domain, folding_witness.witness[i])]
        absorbed == AbsorbCommitments(fq_sponge, commitments)
        first_chunks == [i \in 1..N |-> GetFirstChunk(commitments[i])]
        d == DrawChallenges(absorbed, 4)
    IN [instance |-> FoldingInstance(first_chunks, d.values),
        witness |-> folding_witness,
        fq_sponge |-> d.sponge]

\* folding_constraints leaves out the selectors whose witness is empty.
FoldingConstraintsInCircuit(c) ==
    [k \in {s \in DOMAIN c.trace : InCircuit(c, s)} |->
        [j \in 1..Len(c.trace[k].constraints) |->
            FoldingCompatibleExprFrom(c.trace[k].constraints[j])]]

\* Foldable::folding_constraints
FoldingConstraints(c) ==
    [k \in DOMAIN c.trace |->
        [j \in 1..Len(c.trace[k].constraints) |->
            FoldingCompatibleExprFrom(c.trace[k].constraints[j])]]

(* ---------------------------- state machine --------------------------- *)

VARIABLES
    circuit,   \* the DecomposedTrace: [domain_size, trace: selector -> Trace]
    last,      \* the last operation: its name, arguments, the circuit before
               \* it, its returned count and its output
    panicked   \* TRUE once an operation has panicked (the process is gone)

vars == <<circuit, last, panicked>>

\* The transcripts a caller hands to to_folding_pair: a fresh sponge, or one
\* that already absorbed a scalar.
Sponges == {<<>>, <<[ev |-> "absorb_fr", x |-> One]>>}

NoSelector == "none"
NoRow == <<>>
NoOutput == [none |-> TRUE]

Record(op, selector, row, k, r, fq_sponge, out) ==
    [op |-> op, selector |-> selector, row |-> row, k |-> k, ret |-> r.ret,
     pre |-> circuit, fq_sponge |-> fq_sponge, out |-> out]

\* Apply the outcome r of an operation on the circuit.
Apply(op, selector, row, k, r) ==
    /\ circuit' = r.circuit
    /\ panicked' = r.panic
    /\ last' = Record(op, selector, row, k, r, <<>>, NoOutput)

\* The longest selector column of a sub-trace.
SelColLen(c, s) ==
    LET lens == {Len(c.trace[s].witness.cols[j]) : j \in (N_REL + 1)..N}
    IN CHOOSE m \in lens : \A x \in lens : x <= m

\* set_selector_column and pad_with_zeros are not offered once a selector
\* column would grow more than one entry past the domain size.
MaxSelColLen == DomainSize + 1

\* The circuit is a DecomposedKeccakTrace or a DecomposedMIPSTrace fresh
\* from new. The two types share every operation but new and pad_witnesses,
\* and the record of the last operation says whose pad_witnesses ran.
Init ==
    /\ circuit \in {KeccakNew(DomainSize), MIPSNew(DomainSize, EmptyEnv)}
    /\ panicked = FALSE
    /\ last = [op |-> "new", selector |-> NoSelector, row |-> NoRow, k |-> 0,
               ret |-> 0, pre |-> circuit, fq_sponge |-> <<>>, out |-> NoOutput]

DoPushRow ==
    /\ ~panicked
    /\ \E s \in Selectors, row \in Rows :
          Apply("push_row", s, row, 0, Unwrap(circuit, s, PushRow(circuit, s, row)))

DoPadWithRow ==
    /\ ~panicked
    /\ \E s \in Selectors, row \in Rows :
          Apply("pad_with_row", s, row, 0,
                Unwrap(circuit, s, PadWithRow(circuit, s, row)))

DoPadWithZeros ==
    /\ ~panicked
    /\ \E s \in Selectors :
          /\ Present(circuit, s)
                => SelColLen(PadWithZeros(circuit, s).circuit, s) <= MaxSelColLen
          /\ Apply("pad_with_zeros", s, NoRow, 0,
                   Unwrap(circuit, s, PadWithZeros(circuit, s)))

DoPadDummy ==
    /\ ~panicked
    /\ \E s \in Selectors :
          Apply("pad_dummy", s, NoRow, 0, Unwrap(circuit, s, PadDummy(circuit, s)))

DoReset ==
    /\ ~panicked
    /\ \E s \in Selectors :
          Apply("reset", s, NoRow, 0,
                Unwrap(circuit, s, OpResult(Reset(circuit, s), 0, FALSE)))

DoSetSelectorColumn ==
    /\ ~panicked
    /\ \E s \in Selectors, k \in 0..DomainSize :
          /\ Present(circuit, s) => SelColLen(circuit, s) + k <= MaxSelColLen
          /\ Apply("set_selector_column", s, NoRow, k,
                   Unwrap(circuit, s, OpResult(SetSelectorColumn(circuit, s, k), 0, FALSE)))

DoKeccakPadWitnesses ==
    /\ ~panicked
    /\ Apply("keccak_pad_witnesses", NoSelector, NoRow, 0, KeccakPadWitnesses(circuit))

DoMIPSPadWitnesses ==
    /\ ~panicked
    /\ Apply("mips_pad_witnesses", NoSelector, NoRow, 0, MIPSPadWitnesses(circuit))

DoToFoldingPair ==
    /\ ~panicked
    /\ \E s \in Selectors, fq_sponge \in Sponges :
          LET r == Unwrap(circuit, s, OpResult(circuit, 0, FALSE))
          IN /\ last' = Record("to_folding_pair", s, NoRow, 0, r, fq_sponge,
                               IF Present(circuit, s)
                               THEN ToFoldingPair(circuit, s, fq_sponge, DomainSize)
                               ELSE NoOutput)
             /\ panicked' = r.panic
             /\ UNCHANGED circuit

DoFoldingConstraints ==
    /\ ~panicked
    /\ last' = Record("folding_constraints", NoSelector, NoRow, 0,
                      OpResult(circuit, 0, FALSE), <<>>,
                      [constraints |-> FoldingConstraints(circuit)])
    /\ UNCHANGED <<circuit, panicked>>

Next ==
    \/ DoPushRow
    \/ DoPadWithRow
    \/ DoPadWithZeros
    \/ DoPadDummy
    \/ DoReset
    \/ DoSetSelectorColumn
    \/ DoKeccakPadWitnesses
    \/ DoMIPSPadWitnesses
    \/ DoToFoldingPair
    \/ DoFoldingConstraints

Spec == Init /\ [][Next]_vars

(* ------------------------------ properties ---------------------------- *)

\* The columns of selector s in circuit c.
Cols(c, s) == c.trace[s].witness.cols

\* Every column of selector s is empty.
AllEmpty(c, s) == \A i \in 1..N : Cols(c, s)[i] = <<>>

RelCols == 1..N_REL
SelCols == (N_REL + 1)..N

PadOps == {"pad_with_row", "pad_with_zeros", "pad_dummy"}
PadWitnessesOps == {"keccak_pad_witnesses", "mips_pad_witnesses"}

\* C1: push_row appends row[i] to relation column i exactly when that
\* column holds fewer than domain_size entries, never panics, touches no
\* selector column, and on a sub-trace already holding domain_size rows
\* leaves every column unchanged.
C1_PushRowClampsAtDomainSize ==
    last.op = "push_row" =>
        LET before == Cols(last.pre, last.selector)
            after == Cols(circuit, last.selector)
        IN /\ ~panicked
           /\ \A i \in RelCols :
                 after[i] = IF Len(before[i]) < circuit.domain_size
                            THEN Append(before[i], last.row[i])
                            ELSE before[i]
           /\ \A i \in SelCols : after[i] = before[i]
           /\ (NumberOfRows(last.pre, last.selector) = circuit.domain_size
                  => after = before)

\* A push_row arrived at a sub-trace that was already full.
C1_Witness ==
    /\ last.op = "push_row"
    /\ NumberOfRows(last.pre, last.selector) = DomainSize
    /\ last.row = Row(1)
    /\ ~panicked

\* C2: pad_witnesses on a circuit where some selectors hold rows and others
\* are empty completes without failure, fills every selector that was in
\* circuit and leaves the empty ones empty -- for both instantiations.
C2_PadWitnessesCompletes ==
    (/\ last.op \in PadWitnessesOps
     /\ \E s \in Selectors : InCircuit(last.pre, s)
     /\ \E s \in Selectors : AllEmpty(last.pre, s))
    => /\ ~panicked
       /\ \A s \in Selectors :
             /\ InCircuit(last.pre, s) => IsFull(circuit, s)
             /\ AllEmpty(last.pre, s) => AllEmpty(circuit, s)

\* C3: after set_selector_column(s, k) each of the k appended rows reads
\* one in the selector column N_REL + index_of(s) and zero in every other
\* selector column.
C3_SelectorColumnOneHot ==
    last.op = "set_selector_column" =>
        LET before == Cols(last.pre, last.selector)
            after == Cols(circuit, last.selector)
        IN \A j \in SelCols :
              /\ Len(after[j]) = Len(before[j]) + last.k
              /\ \A r \in (Len(before[j]) + 1)..Len(after[j]) :
                    after[j][r] = IF j - 1 = N_REL + SelectorIndex(last.selector)
                                  THEN One ELSE Zero

\* C4 as stated: all N columns of every sub-trace have the same length.
C4_AllColumnsEqualLength ==
    \A s \in Selectors : \A i, j \in 1..N :
        Len(Cols(circuit, s)[i]) = Len(Cols(circuit, s)[j])

\* C4 amended: in every sub-trace the relation columns all have one length
\* and the selector columns all have one length (the two may differ).
C4_ColumnGroupsEqualLength ==
    \A s \in Selectors :
        /\ \A i, j \in RelCols : Len(Cols(circuit, s)[i]) = Len(Cols(circuit, s)[j])
        /\ \A i, j \in SelCols : Len(Cols(circuit, s)[i]) = Len(Cols(circuit, s)[j])

\* A sub-trace whose relation and selector columns are both non-empty and
\* of different lengths.
C4_Witness ==
    \E s \in Selectors :
        /\ Len(Cols(circuit, s)[1]) # Len(Cols(circuit, s)[N])
        /\ Len(Cols(circuit, s)[N_REL]) > 0
        /\ Len(Cols(circuit, s)[N]) > 0

\* C5: pad_with_zeros has exactly the effect of pad_with_row with the
\* all-zero row: same circuit afterwards, same count, and nothing added to
\* the selector columns.
C5_PadWithZerosIsPadWithZeroRow ==
    last.op = "pad_with_zeros" =>
        LET r == PadWithRow(last.pre, last.selector, [i \in 1..N_REL |-> Zero])
        IN /\ circuit = r.circuit
           /\ last.ret = r.ret
           /\ \A j \in SelCols :
                 Cols(circuit, last.selector)[j] = Cols(last.pre, last.selector)[j]

\* The events the sponge has to absorb for columns i..N of the selected
\* sub-trace: every chunk of the commitment to column i, then column i+1, ...
RECURSIVE ExpectedAbsorbs(_, _)
ExpectedAbsorbs(cols, i) ==
    IF i > N THEN <<>>
    ELSE LET comm == CommitEvaluationsNonHiding(DomainSize,
                                                FromVecAndDomain(cols[i], DomainSize))
         IN [k \in 1..Len(comm.chunks) |-> [ev |-> "absorb_g", g |-> comm.chunks[k]]]
            \o ExpectedAbsorbs(cols, i + 1)

\* What to_folding_pair appended to the sponge it was handed.
Appended == SubSeq(last.out.fq_sponge, Len(last.fq_sponge) + 1, Len(last.out.fq_sponge))

\* C6: to_folding_pair absorbs exactly the N column commitments, in column
\* order 0 .. N-1, and draws no challenge before all of them are absorbed:
\* what it appends to the transcript is the N commitments in column order,
\* followed by events that are all challenges.
C6_AbsorbsCommitmentsInColumnOrder ==
    last.op = "to_folding_pair" =>
        LET expected == ExpectedAbsorbs(Cols(circuit, last.selector), 1)
        IN /\ SubSeq(last.out.fq_sponge, 1, Len(last.fq_sponge)) = last.fq_sponge
           /\ Len(Appended) >= Len(expected)
           /\ SubSeq(Appended, 1, Len(expected)) = expected
           /\ \A p \in (Len(expected) + 1)..Len(Appended) : Appended[p].ev = "challenge"

\* to_folding_pair ran on a full sub-trace with a sponge that had already
\* absorbed something, and the first two columns differ.
C6_Witness ==
    /\ last.op = "to_folding_pair"
    /\ IsFull(circuit, last.selector)
    /\ last.fq_sponge # <<>>
    /\ Cols(circuit, last.selector)[1] # Cols(circuit, last.selector)[2]

\* The j-th challenge drawn by the last to_folding_pair, read off the
\* transcript: the value squeezed from the history before the j-th of the
\* four final challenge events.
Drawn(j) ==
    Challenge(SubSeq(last.out.fq_sponge, 1, Len(last.out.fq_sponge) - 4 + j - 1)).value

\* C7: after the absorptions to_folding_pair draws exactly four challenges;
\* the first three drawn are instance.challenges = [beta, gamma,
\* joint_combiner] in that order, the fourth seeds the alpha powers and is
\* not among instance.challenges, and the blinder is one.
C7_FourChallengesInOrder ==
    last.op = "to_folding_pair" =>
        LET n == Len(Appended)
            inst == last.out.instance
        IN /\ n >= 4
           /\ \A p \in 1..n : (Appended[p].ev = "challenge") <=> (p > n - 4)
           /\ inst.challenges = <<Drawn(1), Drawn(2), Drawn(3)>>
           /\ inst.alphas = AlphasNew(Drawn(4))
           /\ \A j \in 1..3 : inst.challenges[j] # Drawn(4)
           /\ inst.blinder = One

\* to_folding_pair ran on a sub-trace that holds rows.
C7_Witness ==
    /\ last.op = "to_folding_pair"
    /\ InCircuit(circuit, last.selector)
    /\ last.out.instance.blinder = One

\* C8: pad_with_row(row) on a sub-trace holding L rows, 0 < L <= domain_size,
\* returns domain_size - L, keeps rows 0..L-1 of every relation column, makes
\* rows L..domain_size-1 of relation column i equal to row[i], leaves the
\* sub-trace full, and the count returned is the number of rows added.
C8_PadWithRowFills ==
    (/\ last.op = "pad_with_row"
     /\ NumberOfRows(last.pre, last.selector) > 0
     /\ NumberOfRows(last.pre, last.selector) <= last.pre.domain_size)
    => LET L == NumberOfRows(last.pre, last.selector)
           D == last.pre.domain_size
           before == Cols(last.pre, last.selector)
           after == Cols(circuit, last.selector)
       IN /\ ~panicked
          /\ last.ret = D - L
          /\ IsFull(circuit, last.selector)
          /\ \A i \in RelCols :
                /\ Len(after[i]) = D
                /\ SubSeq(after[i], 1, L) = before[i]
                /\ \A r \in (L + 1)..D : after[i][r] = last.row[i]
                /\ last.ret = Len(after[i]) - Len(before[i])

\* pad_with_row added at least one row, different from the rows before it.
C8_Witness ==
    /\ last.op = "pad_with_row"
    /\ NumberOfRows(last.pre, last.selector) > 0
    /\ NumberOfRows(last.pre, last.selector) < DomainSize
    /\ last.ret > 0
    /\ Cols(last.pre, last.selector)[1][1] # last.row[1]

\* Row r of the relation columns.
RowAt(cols, r) == [i \in 1..N_REL |-> cols[i][r]]

C10_EmptySelectorPaddingIsNoOp ==
    (/\ last.op \in PadOps
     /\ ~InCircuit(last.pre, last.selector))
    => /\ ~panicked
       /\ last.ret = 0
       /\ circuit = last.pre
       /\ ~InCircuit(circuit, last.selector)

\* pad_dummy was asked for an empty selector while another selector held
\* rows.
C10_Witness ==
    /\ last.op = "pad_dummy"
    /\ ~InCircuit(last.pre, last.selector)
    /\ \E s \in Selectors : InCircuit(circuit, s)

(* ----------------- the Trace operations, called directly --------------- *)

\* The field trace of a DecomposedTrace is public: a caller reaches a
\* sub-trace and calls the Tracer operations of Trace on it, as pad_witnesses
\* does, without the in_circuit test of the DecomposedTrace operations.
DoTracePushRow ==
    /\ ~panicked
    /\ \E s \in Selectors, row \in Rows :
          Apply("trace_push_row", s, row, 0,
                Lift(circuit, s, PadResult(TracePushRow(circuit.trace[s], row), 0, FALSE)))

DoTracePadWithRow ==
    /\ ~panicked
    /\ \E s \in Selectors, row \in Rows :
          Apply("trace_pad_with_row", s, row, 0,
                Lift(circuit, s, TracePadWithRow(circuit.trace[s], row)))

DoTracePadWithZeros ==
    /\ ~panicked
    /\ \E s \in Selectors :
          Apply("trace_pad_with_zeros", s, NoRow, 0,
                Lift(circuit, s, TracePadWithZeros(circuit.trace[s])))

DoTracePadDummy ==
    /\ ~panicked
    /\ \E s \in Selectors :
          Apply("trace_pad_dummy", s, NoRow, 0,
                Lift(circuit, s, TracePadDummy(circuit.trace[s])))

NextTrace ==
    \/ DoTracePushRow
    \/ DoTracePadWithRow
    \/ DoTracePadWithZeros
    \/ DoTracePadDummy
    \/ DoReset

SpecTrace == Init /\ [][NextTrace]_vars

TracePadOps == {"trace_pad_with_row", "trace_pad_with_zeros", "trace_pad_dummy"}

\* C11: pad_with_row, pad_with_zeros and pad_dummy called directly on a
\* sub-trace whose current length is 0 do nothing and return 0.
C11_TracePaddingOfEmptyIsNoOp ==
    (last.op \in TracePadOps /\ ~InCircuit(last.pre, last.selector))
        => /\ ~panicked
           /\ last.ret = 0
           /\ circuit = last.pre

(* -------------------------- properties, continued ---------------------- *)

\* What pad_witnesses leaves behind: every sub-trace is empty or full.
Padded(c) == \A s \in Selectors : ~InCircuit(c, s) \/ IsFull(c, s)

\* C12: pad_with_row (with any row), pad_with_zeros and pad_dummy on a
\* sub-trace that already holds domain_size rows return 0 and leave all N
\* columns unchanged, and pad_witnesses on a circuit whose sub-traces are all
\* empty or full changes nothing.
C12_PaddingIdempotentOnFull ==
    /\ (last.op \in PadOps /\ IsFull(last.pre, last.selector))
          => /\ ~panicked
             /\ last.ret = 0
             /\ circuit = last.pre
    /\ (last.op \in PadWitnessesOps /\ Padded(last.pre))
          => circuit = last.pre

\* pad_with_zeros has run on a full sub-trace, or pad_witnesses a second time
\* on a circuit with a full sub-trace.
C12_Witness ==
    \/ /\ last.op = "pad_with_zeros"
       /\ IsFull(last.pre, last.selector)
       /\ \E i \in RelCols : Cols(circuit, last.selector)[i][1] # Zero
    \/ /\ last.op = "keccak_pad_witnesses"
       /\ Padded(last.pre)
       /\ \A s \in Selectors : IsFull(last.pre, s)

\* C13: reset(selector) empties every one of the N columns of that selector,
\* so that number_of_rows is 0 and in_circuit is false, keeps that selector's
\* constraints, lookups and domain_size, and leaves every other sub-trace
\* unchanged.
C13_ResetFrame ==
    last.op = "reset"
        => /\ ~panicked
           /\ \A i \in 1..N : Cols(circuit, last.selector)[i] = <<>>
           /\ NumberOfRows(circuit, last.selector) = 0
           /\ ~InCircuit(circuit, last.selector)
           /\ circuit.trace[last.selector].constraints
                 = last.pre.trace[last.selector].constraints
           /\ circuit.trace[last.selector].lookups
                 = last.pre.trace[last.selector].lookups
           /\ circuit.trace[last.selector].domain_size
                 = last.pre.trace[last.selector].domain_size
           /\ \A s \in Selectors \ {last.selector} :
                 circuit.trace[s] = last.pre.trace[s]
           /\ circuit.domain_size = last.pre.domain_size

\* reset has emptied a sub-trace that held rows and selector entries, while
\* another sub-trace holds rows.
C13_Witness ==
    /\ last.op = "reset"
    /\ InCircuit(last.pre, last.selector)
    /\ \E j \in SelCols : Cols(last.pre, last.selector)[j] # <<>>
    /\ \E s \in Selectors \ {last.selector} : InCircuit(circuit, s)

\* The commitment to_folding_pair computes for a column.
CommitmentOf(col) ==
    CommitEvaluationsNonHiding(DomainSize, FromVecAndDomain(col, DomainSize))

\* C14: to_folding_pair(selector, ...) returns a witness of exactly N
\* evaluation tables, the i-th holding exactly the values of column i of the
\* selected sub-trace, and an instance of exactly N commitments, the i-th
\* being the first chunk of the commitment to column i; the circuit is not
\* modified.
C14_FoldingPairMirrorsColumns ==
    last.op = "to_folding_pair"
        => LET cols == Cols(last.pre, last.selector)
               tables == last.out.witness.witness
               comms == last.out.instance.commitments
           IN /\ Len(tables) = N
              /\ \A i \in 1..N : tables[i].evals = cols[i]
              /\ Len(comms) = N
              /\ \A i \in 1..N : comms[i] = GetFirstChunk(CommitmentOf(cols[i]))
              /\ circuit = last.pre
              /\ ~panicked

\* to_folding_pair ran on a full sub-trace whose selector columns are set and
\* whose first and last columns differ.
C14_Witness ==
    /\ last.op = "to_folding_pair"
    /\ IsFull(circuit, last.selector)
    /\ \A j \in SelCols : Len(Cols(circuit, last.selector)[j]) = DomainSize
    /\ Cols(circuit, last.selector)[1] # Cols(circuit, last.selector)[N]

\* C15: to_folding_pair does not enforce fullness: for a sub-trace holding
\* fewer than domain_size rows it does not fail, and the evaluation tables
\* of the witness have the lengths of the sub-trace's columns, the relation
\* tables holding fewer than domain_size evaluations.
C15_FoldingPairOfShortTrace ==
    (/\ last.op = "to_folding_pair"
     /\ NumberOfRows(last.pre, last.selector) < last.pre.domain_size)
        => LET cols == Cols(last.pre, last.selector)
               tables == last.out.witness.witness
           IN /\ ~panicked
              /\ \A i \in 1..N : Len(tables[i].evals) = Len(cols[i])
              /\ \A i \in RelCols : Len(tables[i].evals) < last.pre.domain_size

\* to_folding_pair ran on a sub-trace that holds rows but is not full and
\* whose selector columns were never set.
C15_Witness ==
    /\ last.op = "to_folding_pair"
    /\ InCircuit(circuit, last.selector)
    /\ ~IsFull(circuit, last.selector)
    /\ \A j \in SelCols : Cols(circuit, last.selector)[j] = <<>>

(* ------------- a DecomposedTrace that lacks some sub-traces ------------ *)

\* DecomposedTrace { domain_size, trace }: both fields are public, and a
\* map built by hand need not hold a sub-trace for every selector. Here it
\* holds the sub-traces new creates for some of the selectors only.
InitAbsent ==
    /\ \E present \in (SUBSET Selectors) \ {Selectors} :
          circuit = [domain_size |-> DomainSize,
                     trace |-> [s \in present |-> KeccakNew(DomainSize).trace[s]]]
    /\ panicked = FALSE
    /\ last = [op |-> "new", selector |-> NoSelector, row |-> NoRow, k |-> 0,
               ret |-> 0, pre |-> circuit, fq_sponge |-> <<>>, out |-> NoOutput]

QueryOps == {"number_of_rows", "in_circuit", "is_full"}

\* number_of_rows, in_circuit and is_full: they read self[opcode].
DoQuery ==
    /\ ~panicked
    /\ \E s \in Selectors, op \in QueryOps :
          LET r == Unwrap(circuit, s, OpResult(circuit, 0, FALSE))
              value == CASE op = "number_of_rows" -> NumberOfRows(circuit, s)
                         [] op = "in_circuit" -> InCircuit(circuit, s)
                         [] op = "is_full" -> IsFull(circuit, s)
          IN /\ last' = Record(op, s, NoRow, 0, r, <<>>,
                               IF Present(circuit, s) THEN [value |-> value]
                               ELSE NoOutput)
             /\ panicked' = r.panic
             /\ UNCHANGED circuit

NextAbsent ==
    \/ DoQuery
    \/ DoPushRow
    \/ DoPadWithRow
    \/ DoPadWithZeros
    \/ DoPadDummy
    \/ DoReset
    \/ DoSetSelectorColumn
    \/ DoToFoldingPair

SpecAbsent == InitAbsent /\ [][NextAbsent]_vars

AddressedOps ==
    QueryOps \cup PadOps \cup {"reset", "set_selector_column", "push_row", "to_folding_pair"}

\* C16: every operation addressed to a selector that is absent from the
\* DecomposedTrace (number_of_rows, in_circuit, is_full, reset,
\* set_selector_column, push_row, pad_with_row, pad_with_zeros, pad_dummy,
\* to_folding_pair) panics: it returns no value, and no sub-trace is modified.
C16_AbsentSelectorPanics ==
    (last.op \in AddressedOps /\ ~Present(last.pre, last.selector))
        => /\ panicked
           /\ last.out = NoOutput
           /\ circuit = last.pre

\* A padding operation was addressed to an absent selector while another
\* sub-trace holds rows.
C16_Witness ==
    /\ last.op = "pad_with_zeros"
    /\ ~Present(last.pre, last.selector)
    /\ \E s \in DOMAIN circuit.trace : InCircuit(circuit, s)

\* C17: folding_constraints() returns a mapping whose key set is exactly the
\* key set of the DecomposedTrace, selectors with an empty witness included,
\* whose entry for a selector holds as many expressions as that selector's
\* stored constraints, in the same order; the result does not depend on the
\* witness (it is what the call returns once every witness is reset), and
\* the call modifies nothing.
C17_FoldingConstraintsMirrorConstraints ==
    last.op = "folding_constraints"
        => LET result == last.out.constraints
           IN /\ DOMAIN result = DOMAIN last.pre.trace
              /\ \A s \in DOMAIN result :
                    LET stored == last.pre.trace[s].constraints
                    IN /\ Len(result[s]) = Len(stored)
                       /\ \A j \in 1..Len(stored) :
                             result[s][j] = FoldingCompatibleExprFrom(stored[j])
                       /\ result[s] = FoldingConstraints(Reset(last.pre, s))[s]
              /\ circuit = last.pre
              /\ ~panicked

\* folding_constraints ran while one sub-trace was empty and another held
\* rows.
C17_Witness ==
    /\ last.op = "folding_constraints"
    /\ \E s \in Selectors : ~InCircuit(circuit, s)
    /\ \E s \in Selectors : InCircuit(circuit, s)
    /\ \A s \in Selectors : Len(last.out.constraints[s]) > 1

\* C18 as stated: in every reachable state the length of every one of the N
\* columns of every sub-trace is at most domain_size.
C18_AllColumnsWithinDomain ==
    \A s \in Selectors : \A i \in 1..N :
        Len(Cols(circuit, s)[i]) <= circuit.trace[s].domain_size

\* C19: right after new the DecomposedTrace holds one sub-trace for every
\* selector of the enumeration, each with all N columns empty (in_circuit
\* false), with the parent's domain_size, and with its constraints and
\* lookups populated; and in every reachable state each sub-trace's
\* domain_size equals the parent's.
C19_NewAndDomainSize ==
    /\ \A s \in Selectors : circuit.trace[s].domain_size = circuit.domain_size
    /\ last.op = "new"
          => /\ DOMAIN circuit.trace = Selectors
             /\ circuit.domain_size = DomainSize
             /\ \A s \in Selectors :
                   /\ AllEmpty(circuit, s)
                   /\ ~InCircuit(circuit, s)
                   /\ circuit.trace[s].constraints = ConstraintsOf(s)
                   /\ circuit.trace[s].constraints # <<>>
                   /\ circuit.trace[s].lookups = LookupsOf(s)
                   /\ circuit.trace[s].lookups # <<>>

\* The state new leaves: nothing has run and no sub-trace holds a row.
C19_Witness ==
    /\ last.op = "new"
    /\ ~panicked
    /\ \A s \in Selectors : NumberOfRows(circuit, s) = 0
    /\ \A s, t \in Selectors :
          s # t => circuit.trace[s].constraints # circuit.trace[t].constraints

\* C20: after initialization no operation (push_row, pad_with_row,
\* pad_with_zeros, pad_dummy, pad_witnesses, reset, set_selector_column,
\* to_folding_pair, folding_constraints) changes a sub-trace's constraints,
\* lookups or domain_size, the parent's domain_size, or the set of selectors
\* present.
C20_StructureNeverChanges ==
    /\ DOMAIN circuit.trace = DOMAIN last.pre.trace
    /\ circuit.domain_size = last.pre.domain_size
    /\ \A s \in DOMAIN last.pre.trace :
          /\ circuit.trace[s].constraints = last.pre.trace[s].constraints
          /\ circuit.trace[s].lookups = last.pre.trace[s].lookups
          /\ circuit.trace[s].domain_size = last.pre.trace[s].domain_size

\* An operation has changed the witness of a sub-trace while another
\* sub-trace holds rows.
C20_Witness ==
    /\ last.op \in {"reset", "set_selector_column", "mips_pad_witnesses"}
    /\ circuit # last.pre
    /\ \E s \in Selectors :
          /\ circuit.trace[s] = last.pre.trace[s]
          /\ InCircuit(circuit, s)

\* The sub-trace of s is full, holds a pushed row, and its selector columns
\* are as padding left them: empty after pad_with_row or pad_dummy, or the
\* m < domain_size zeros pad_with_zeros appended along with its m zero rows.
PaddedNotSelected(c, s) ==
    /\ IsFull(c, s)
    /\ \E m \in 0..(c.domain_size - 1) :
          /\ \A j \in SelCols : Cols(c, s)[j] = Repeat(Zero, m)
          /\ \A i \in RelCols : \A r \in (c.domain_size - m + 1)..c.domain_size :
                Cols(c, s)[i][r] = Zero

\* C21: for a sub-trace with a pushed row whose relation columns have been
\* padded to domain_size by pad_with_row, pad_with_zeros or pad_dummy, one
\* set_selector_column(s, domain_size) leaves every one of the N columns
\* with exactly domain_size entries and the same one-hot flag on every row.
C21_PaddedAndSelectedIsRectangular ==
    (/\ last.op = "set_selector_column"
     /\ last.k = last.pre.domain_size
     /\ PaddedNotSelected(last.pre, last.selector))
        => LET cols == Cols(circuit, last.selector)
           IN /\ \A i \in 1..N : Len(cols[i]) = circuit.domain_size
              /\ \A j \in SelCols : \A r \in 1..Len(cols[j]) :
                    cols[j][r] = IF j - 1 = N_REL + SelectorIndex(last.selector)
                                 THEN One ELSE Zero

\* C27: push_row, pad_with_row, pad_dummy and pad_witnesses write only to
\* the relation columns of the addressed selector's sub-trace: no selector
\* column changes, and no other selector's sub-trace changes (pad_witnesses
\* addresses every selector).
C27_OnlyRelationColumnsWritten ==
    /\ last.op \in {"push_row", "pad_with_row", "pad_dummy"}
          => /\ \A j \in SelCols :
                   Cols(circuit, last.selector)[j] = Cols(last.pre, last.selector)[j]
             /\ \A s \in Selectors \ {last.selector} :
                   circuit.trace[s] = last.pre.trace[s]
    /\ last.op \in PadWitnessesOps
          => \A s \in Selectors : \A j \in SelCols :
                Cols(circuit, s)[j] = Cols(last.pre, s)[j]

\* pad_dummy or pad_witnesses has added rows to a sub-trace whose selector
\* columns already hold entries.
C27_Witness ==
    /\ last.op \in {"pad_dummy", "keccak_pad_witnesses"}
    /\ \E s \in Selectors :
          /\ NumberOfRows(circuit, s) > NumberOfRows(last.pre, s)
          /\ \A j \in SelCols : Cols(last.pre, s)[j] # <<>>

\* C28: over push_row, pad_with_row, pad_with_zeros, pad_dummy,
\* pad_witnesses, set_selector_column, to_folding_pair and
\* folding_constraints number_of_rows(s) never decreases and a full selector
\* stays full; reset(s) is the only operation that lowers number_of_rows(s),
\* and it sets it to 0.
C28_RowsOnlyGrowUntilReset ==
    /\ last.op # "reset"
          => \A s \in Selectors :
                /\ NumberOfRows(circuit, s) >= NumberOfRows(last.pre, s)
                /\ IsFull(last.pre, s) => IsFull(circuit, s)
    /\ last.op = "reset"
          => /\ NumberOfRows(circuit, last.selector) = 0
             /\ \A s \in Selectors \ {last.selector} :
                   NumberOfRows(circuit, s) = NumberOfRows(last.pre, s)

\* A row was pushed to a full sub-trace while another one is being filled.
C28_Witness ==
    /\ last.op = "push_row"
    /\ IsFull(last.pre, last.selector)
    /\ \E s \in Selectors : InCircuit(circuit, s) /\ ~IsFull(circuit, s)

\* C29: the assertion len <= domain_size of pad_with_row and pad_with_zeros
\* never fires: in every reachable state every sub-trace holds at most
\* domain_size rows, and no padding operation of a DecomposedTrace ends in a
\* panic (pad_witnesses of the MIPS trace can, on an index, not on the
\* assertion: C2).
C29_PaddingAssertionHolds ==
    /\ \A s \in Selectors :
          NumberOfRows(circuit, s) <= circuit.trace[s].domain_size
    /\ last.op \in PadOps \cup {"keccak_pad_witnesses"} => ~panicked

\* pad_with_row or pad_with_zeros ran on a sub-trace holding exactly
\* domain_size rows, where the assertion holds with equality.
C29_Witness ==
    /\ last.op \in {"pad_with_row", "pad_with_zeros"}
    /\ NumberOfRows(last.pre, last.selector) = last.pre.trace[last.selector].domain_size
    /\ ~panicked

\* C30: the Keccak and the MIPS implementations behave alike. push_row,
\* pad_with_row, pad_with_zeros and pad_dummy of the two sub-trace types
\* have one body each here; what can differ is pad_witnesses, and the claim
\* is that from the same circuit the two leave the same columns and end the
\* same way.
C30_PadWitnessesAlike ==
    last.op \in PadWitnessesOps
        => /\ KeccakPadWitnesses(last.pre).circuit = MIPSPadWitnesses(last.pre).circuit
           /\ KeccakPadWitnesses(last.pre).panic = MIPSPadWitnesses(last.pre).panic

(* --------------- absorbing commitments in a chosen order --------------- *)

\* The witness of two columns over a domain of four.
ExampleWitness == <<(<<1, 2, 3, 4>>), (<<5, 6, 7, 8>>)>>
ExampleDomain == Len(ExampleWitness[1])

\* Columns to build two-column witnesses from.
OrderColumns ==
    {ExampleWitness[1], ExampleWitness[2],
     <<0, 0, 0, 0>>, <<1, 1, 1, 1>>, <<4, 3, 2, 1>>, <<8, 7, 6, 5>>}

\* Steps 2 to 4 of to_folding_pair on the columns of w taken in the given
\* order: commit to each, absorb the commitments, draw four challenges.
CommitAbsorbDraw(w, order, fq_sponge) ==
    LET commitments ==
            [i \in 1..Len(order) |->
                CommitEvaluationsNonHiding(ExampleDomain,
                    FromVecAndDomain(w[order[i]], ExampleDomain))]
    IN DrawChallenges(AbsorbCommitments(fq_sponge, commitments), 4).values

DoCommitAbsorbDraw ==
    /\ ~panicked
    /\ \E c0 \in OrderColumns, c1 \in OrderColumns,
          order \in {<<1, 2>>, <<2, 1>>}, fq_sponge \in Sponges :
          last' = Record("commit_absorb_draw", NoSelector, NoRow, 0,
                         OpResult(circuit, 0, FALSE), fq_sponge,
                         [witness |-> <<c0, c1>>, order |-> order,
                          drawn |-> CommitAbsorbDraw(<<c0, c1>>, order, fq_sponge)])
    /\ UNCHANGED <<circuit, panicked>>

NextOrder == DoCommitAbsorbDraw

SpecOrder == Init /\ [][NextOrder]_vars

\* The order with the two columns exchanged.
Exchanged(order) == <<order[2], order[1]>>

Pending == NoOutput

\* collect() of an indexed parallel iterator: the result of the task of
\* column i goes to position i, whenever it completes.
Collect(slots, i, v) == [slots EXCEPT ![i] = v]

AllDone(slots) == \A i \in 1..N : slots[i] # Pending

Running == last.op = "par_running"

DoParStart ==
    /\ ~panicked
    /\ ~Running
    /\ \E s \in Selectors, fq_sponge \in Sponges :
          last' = Record("par_running", s, NoRow, 0, OpResult(circuit, 0, FALSE), fq_sponge,
                         [tables |-> [i \in 1..N |-> Pending],
                          commitments |-> [i \in 1..N |-> Pending],
                          sponge |-> fq_sponge,
                          absorbed |-> 0])
    /\ UNCHANGED <<circuit, panicked>>

\* One task of the first parallel map: the evaluation table of column i.
DoParTable ==
    /\ Running
    /\ \E i \in 1..N :
          /\ last.out.tables[i] = Pending
          /\ last' = [last EXCEPT !.out.tables =
                         Collect(@, i, FromVecAndDomain(Cols(circuit, last.selector)[i],
                                                        DomainSize))]
    /\ UNCHANGED <<circuit, panicked>>

\* One task of the second parallel map, which starts once the first
\* collect() has returned: the commitment to table i.
DoParCommit ==
    /\ Running
    /\ AllDone(last.out.tables)
    /\ \E i \in 1..N :
          /\ last.out.commitments[i] = Pending
          /\ last' = [last EXCEPT !.out.commitments =
                         Collect(@, i, CommitEvaluationsNonHiding(DomainSize,
                                                                  last.out.tables[i]))]
    /\ UNCHANGED <<circuit, panicked>>

\* The next commitment is absorbed as soon as it has been computed.
DoParAbsorbEarly ==
    /\ Running
    /\ last.out.absorbed < N
    /\ last.out.commitments[last.out.absorbed + 1] # Pending
    /\ last' = [last EXCEPT
                   !.out.sponge = AbsorbCommitment(@, last.out.commitments[last.out.absorbed + 1]),
                   !.out.absorbed = @ + 1]
    /\ UNCHANGED <<circuit, panicked>>

\* One step of the for_each over the collected commitments: it starts once
\* the second collect() has returned and goes through them in order.
DoParAbsorb ==
    /\ Running
    /\ AllDone(last.out.commitments)
    /\ last.out.absorbed < N
    /\ last' = [last EXCEPT
                   !.out.sponge = AbsorbCommitment(@, last.out.commitments[last.out.absorbed + 1]),
                   !.out.absorbed = @ + 1]
    /\ UNCHANGED <<circuit, panicked>>

\* The rest of to_folding_pair: first chunks, the four challenges, the pair.
DoParFinish ==
    /\ Running
    /\ AllDone(last.out.commitments)
    /\ last.out.absorbed = N
    /\ LET first_chunks == [i \in 1..N |-> GetFirstChunk(last.out.commitments[i])]
           d == DrawChallenges(last.out.sponge, 4)
       IN last' = [last EXCEPT
                      !.op = "par_to_folding_pair",
                      !.out = [instance |-> FoldingInstance(first_chunks, d.values),
                               witness |-> [witness |-> last.out.tables],
                               fq_sponge |-> d.sponge]]
    /\ UNCHANGED <<circuit, panicked>>

\* to_folding_pair borrows the circuit: rows are pushed between calls only.
DoParPushRow == ~Running /\ DoPushRow

NextPar ==
    \/ DoParPushRow
    \/ DoParStart
    \/ DoParTable
    \/ DoParCommit
    \/ DoParAbsorb
    \/ DoParFinish

SpecPar == Init /\ [][NextPar]_vars

\* C24: in whatever order the per-column tasks complete, a completed slot i
\* holds the table of column i and the commitment to that table, nothing is
\* absorbed before all N commitments are there, what has been absorbed is
\* the first commitments in column order, and the pair returned is the one
\* a sequential execution returns.
C24_ParallelTasksCollectInOrder ==
    /\ Running
          => LET cols == Cols(circuit, last.selector)
                 o == last.out
             IN /\ \A i \in 1..N :
                      /\ o.tables[i] # Pending
                            => o.tables[i] = FromVecAndDomain(cols[i], DomainSize)
                      /\ o.commitments[i] # Pending
                            => /\ AllDone(o.tables)
                               /\ o.commitments[i] = CommitmentOf(cols[i])
                /\ o.absorbed > 0 => AllDone(o.commitments)
                /\ o.absorbed = 0 => o.sponge = last.fq_sponge
                /\ AllDone(o.commitments)
                      => o.sponge = AbsorbCommitments(last.fq_sponge,
                                                      SubSeq(o.commitments, 1, o.absorbed))
    /\ last.op = "par_to_folding_pair"
          => last.out = ToFoldingPair(circuit, last.selector, last.fq_sponge, DomainSize)

\* The task of the last column has completed before that of the first, for
\* the tables and for the commitments, on a sub-trace that holds rows.
C24_Witness ==
    /\ Running
    /\ InCircuit(circuit, last.selector)
    /\ last.out.commitments[1] = Pending
    /\ last.out.commitments[N] # Pending

(* ---------------------------- storage proofs --------------------------- *)
\* saffron::storage_proof. The scalar field, the commitment scheme, the
\* sponges and the opening proof are external collaborators: the field is a
\* small prime field, a commitment is identified with the vector it commits
\* to and is additively homomorphic, a sponge is the history of what it
\* absorbed and squeezed, and an opening proof verifies exactly when it was
\* made for the commitment, point, evaluation and sponge it is checked
\* against and its scalars are untouched.

FieldModulus == 5
Field == 0..(FieldModulus - 1)
FAdd(a, b) == (a + b) % FieldModulus
FSub(a, b) == (a + FieldModulus - b) % FieldModulus
FMul(a, b) == (a * b) % FieldModulus
FInv(a) == CHOOSE b \in Field : FMul(a, b) = 1

RECURSIVE FPow(_, _)
FPow(a, n) == IF n = 0 THEN 1 ELSE FMul(a, FPow(a, n - 1))

RECURSIVE FSum(_, _)
\* f[1] + ... + f[n]
FSum(f, n) == IF n = 0 THEN 0 ELSE FAdd(FSum(f, n - 1), f[n])

RECURSIVE FProd(_, _)
\* f[1] * ... * f[n]
FProd(f, n) == IF n = 0 THEN 1 ELSE FMul(FProd(f, n - 1), f[n])

\* SRS_SIZE: the number of field elements of a chunk.
SRS_SIZE == 2

\* The largest number of chunks of a blob.
MaxChunks == 2

\* The points of the evaluation domain.
DomainPoint(i) == i - 1

\* Chunk j (from 0) of the data.
ChunkOf(data, j) == SubSeq(data, j * SRS_SIZE + 1, (j + 1) * SRS_SIZE)

\* The commitment to a vector of SRS_SIZE evaluations.
CommitToChunk(v) == [commits_to |-> v]

\* FieldBlob: the data and the commitment to each of its chunks.
FieldBlob(data) ==
    [data |-> data,
     commitments |-> [j \in 1..(Len(data) \div SRS_SIZE) |->
                         CommitToChunk(ChunkOf(data, j - 1))]]

\* utils::aggregate_commitments(challenge, commitments): the sum of
\* challenge^j * commitments[j], the first power being 0.
AggregateCommitments(challenge, commitments) ==
    CommitToChunk(
        [i \in 1..SRS_SIZE |->
            FSum([j \in 1..Len(commitments) |->
                     FMul(FPow(challenge, j - 1), commitments[j].commits_to[i])],
                 Len(commitments))])

\* Evaluations::from_vec_and_domain(v, domain).interpolate().evaluate(x):
\* the value at x of the polynomial of degree < SRS_SIZE that takes the
\* value v[i] at the i-th point of the domain.
InterpolateEvaluate(v, x) ==
    FSum([i \in 1..Len(v) |->
             FMul(v[i],
                  FProd([j \in 1..Len(v) |->
                            IF j = i THEN 1
                            ELSE FMul(FSub(x, DomainPoint(j)),
                                      FInv(FSub(DomainPoint(i), DomainPoint(j))))],
                        Len(v)))],
         Len(v))

\* What a sponge squeezes out of its history.
RECURSIVE Digest(_)
Digest(sponge) ==
    IF sponge = <<>> THEN 1
    ELSE LET e == sponge[Len(sponge)]
             rest == Digest(SubSeq(sponge, 1, Len(sponge) - 1))
         IN CASE e.ev = "absorb_g" ->
                    FAdd(FMul(2, rest),
                         FSum([i \in 1..Len(e.g.commits_to) |->
                                  FMul(i, e.g.commits_to[i])],
                              Len(e.g.commits_to)))
              [] e.ev = "absorb_fr" -> FAdd(FMul(2, rest), e.x)
              [] OTHER -> FAdd(FMul(3, rest), 1)

\* curve_sponge.absorb_g(&[g])
AbsorbG(sponge, g) == Append(sponge, [ev |-> "absorb_g", g |-> g])

\* scalar_sponge.absorb(&x)
AbsorbFr(sponge, x) == Append(sponge, [ev |-> "absorb_fr", x |-> x])

\* curve_sponge.squeeze(2): the scalar and the sponge afterwards.
Squeeze(sponge) ==
    [value |-> Digest(sponge), sponge |-> Append(sponge, [ev |-> "squeeze"])]

\* The scalar z1 of an honest opening; it is one with negligible
\* probability, which is left out.
HonestZ1(v, x) == 2 + (InterpolateEvaluate(v, x) % (FieldModulus - 2))

\* srs.open(.., [(poly, blinder 0)], [x], 1, 1, sponge, rng) for the
\* polynomial with evaluations v.
SrsOpen(v, x, sponge) ==
    [opens |-> CommitToChunk(v), at |-> x, value |-> InterpolateEvaluate(v, x),
     sponge |-> sponge, z1 |-> HonestZ1(v, x), honest_z1 |-> HonestZ1(v, x)]

\* srs.verify(.., [BatchEvaluationProof { sponge, evaluation_points: [x],
\* evaluations: [commitment, eval], opening, .. }], rng)
SrsVerify(sponge, x, commitment, eval, opening) ==
    /\ opening.opens = commitment
    /\ opening.at = x
    /\ opening.value = eval
    /\ opening.sponge = sponge
    /\ opening.z1 = opening.honest_z1

\* The loop scales the chunk it adds instead of the accumulator.
RECURSIVE CombineFromScalingChunk(_, _, _, _)
CombineFromScalingChunk(data, challenge, acc, chunk_ix) ==
    IF chunk_ix < 0 THEN acc
    ELSE CombineFromScalingChunk(data, challenge,
                     [idx \in 1..SRS_SIZE |->
                         FAdd(acc[idx], FMul(challenge, data[chunk_ix * SRS_SIZE + idx]))],
                     chunk_ix - 1)

\* The combination sum_j challenge^j * chunk_j of the chunks of the data,
\* computed from the last chunk down: acc = acc * challenge + chunk.
RECURSIVE CombineFrom(_, _, _, _)
CombineFrom(data, challenge, acc, chunk_ix) ==
    IF chunk_ix < 0 THEN acc
    ELSE CombineFrom(data, challenge,
                     [idx \in 1..SRS_SIZE |->
                         FAdd(FMul(acc[idx], challenge), data[chunk_ix * SRS_SIZE + idx])],
                     chunk_ix - 1)

\* The snapshot handed to open is taken before the evaluation point is
\* squeezed.
ProveSnapshotBeforeSqueeze(blob, challenge) ==
    LET final_chunk == (Len(blob.data) \div SRS_SIZE) - 1
        combined_data_commitment == AggregateCommitments(challenge, blob.commitments)
        combined_data == CombineFrom(blob.data, challenge,
                                     ChunkOf(blob.data, final_chunk), final_chunk - 1)
        absorbed == AbsorbG(<<>>, combined_data_commitment)
        evaluation_point == Squeeze(absorbed).value
        combined_data_eval == InterpolateEvaluate(combined_data, evaluation_point)
    IN [proof |-> [combined_data_eval |-> combined_data_eval,
                   opening_proof |-> SrsOpen(combined_data, evaluation_point, absorbed)],
        evaluation_point |-> evaluation_point,
        sponge_given |-> absorbed,
        panic |-> FALSE]

\* storage_proof::prove: the proof, and what the prover derived on the way.
Prove(blob, challenge) ==
    LET final_chunk == (Len(blob.data) \div SRS_SIZE) - 1
        combined_data_commitment == AggregateCommitments(challenge, blob.commitments)
        combined_data == CombineFrom(blob.data, challenge,
                                     ChunkOf(blob.data, final_chunk), final_chunk - 1)
        curve_sponge == Squeeze(AbsorbG(<<>>, combined_data_commitment))
        evaluation_point == curve_sponge.value
        combined_data_eval == InterpolateEvaluate(combined_data, evaluation_point)
        curve_sponge_before_evaluations == curve_sponge.sponge
        scalar_sponge == AbsorbFr(AbsorbFr(<<>>, Digest(curve_sponge.sponge)),
                                  combined_data_eval)
    IN IF final_chunk < 0 \/ Len(blob.data) % SRS_SIZE # 0
       THEN [panic |-> TRUE]
       ELSE [proof |-> [combined_data_eval |-> combined_data_eval,
                        opening_proof |-> SrsOpen(combined_data, evaluation_point,
                                                  curve_sponge_before_evaluations)],
             evaluation_point |-> evaluation_point,
             sponge_given |-> curve_sponge_before_evaluations,
             panic |-> FALSE]

\* The verifier checks the opening against the evaluation the opening was
\* made for, not against the one the proof states.
VerifyTrustingOpening(combined_data_commitment, proof) ==
    LET curve_sponge == Squeeze(AbsorbG(<<>>, combined_data_commitment))
    IN [res |-> SrsVerify(curve_sponge.sponge, curve_sponge.value,
                          combined_data_commitment, proof.opening_proof.value,
                          proof.opening_proof),
        evaluation_point |-> curve_sponge.value,
        sponge_given |-> curve_sponge.sponge]

\* storage_proof::verify_wrt_combined_data_commitment: the verdict, and what
\* the verifier derived on the way.
VerifyWrtCombinedDataCommitment(combined_data_commitment, proof) ==
    LET curve_sponge == Squeeze(AbsorbG(<<>>, combined_data_commitment))
        evaluation_point == curve_sponge.value
        curve_sponge_before_evaluations == curve_sponge.sponge
        scalar_sponge == AbsorbFr(AbsorbFr(<<>>, Digest(curve_sponge.sponge)),
                                  proof.combined_data_eval)
    IN [res |-> SrsVerify(curve_sponge_before_evaluations, evaluation_point,
                          combined_data_commitment, proof.combined_data_eval,
                          proof.opening_proof),
        evaluation_point |-> evaluation_point,
        sponge_given |-> curve_sponge_before_evaluations]

\* The blobs: one to MaxChunks chunks of data.
StorageValues == {1, 3}

RECURSIVE SeqsOfLen(_, _)
SeqsOfLen(S, n) ==
    IF n = 0 THEN {<<>>}
    ELSE {Append(q, x) : q \in SeqsOfLen(S, n - 1), x \in S}

Blobs == {FieldBlob(data) :
            data \in UNION {SeqsOfLen(StorageValues, c * SRS_SIZE) : c \in 1..MaxChunks}}

\* What the soundness test does to a proof before it verifies it.
Tamperings == {"none", "eval_plus_one", "z1_one"}

Tamper(proof, how) ==
    CASE how = "eval_plus_one" ->
             [proof EXCEPT !.combined_data_eval = FAdd(@, One)]
      [] how = "z1_one" -> [proof EXCEPT !.opening_proof.z1 = One]
      [] OTHER -> proof

\* A run proves one blob.
DoProve ==
    /\ ~panicked
    /\ last.op = "new"
    /\ \E blob \in Blobs, challenge \in Field :
          LET r == Prove(blob, challenge)
          IN /\ last' = Record("prove", NoSelector, NoRow, 0,
                               OpResult(circuit, 0, r.panic), <<>>,
                               [blob |-> blob, challenge |-> challenge, prover |-> r])
             /\ panicked' = r.panic
    /\ UNCHANGED circuit

\* verify_wrt_combined_data_commitment on the proof just made, as it is or
\* tampered with, against the combination of the blob's commitments.
DoVerify ==
    /\ ~panicked
    /\ last.op = "prove"
    /\ \E how \in Tamperings :
          LET combined_data_commitment ==
                  AggregateCommitments(last.out.challenge, last.out.blob.commitments)
              proof == Tamper(last.out.prover.proof, how)
          IN last' = [last EXCEPT
                         !.op = "verify",
                         !.out = [blob |-> last.out.blob,
                                  challenge |-> last.out.challenge,
                                  prover |-> last.out.prover,
                                  tampering |-> how,
                                  proof |-> proof,
                                  combined_data_commitment |-> combined_data_commitment,
                                  verifier |-> VerifyWrtCombinedDataCommitment(
                                                   combined_data_commitment, proof)]]
    /\ UNCHANGED <<circuit, panicked>>

NextStorage ==
    \/ DoProve
    \/ DoVerify

SpecStorage == Init /\ [][NextStorage]_vars

\* C25: for a proof returned by prove and the matching combined commitment,
\* verify_wrt_combined_data_commitment returns false when combined_data_eval
\* is replaced by combined_data_eval + 1, and returns false when the scalar
\* z1 of the opening proof is overwritten.
C25_TamperedProofRejected ==
    (last.op = "verify" /\ last.out.tampering # "none")
        => /\ last.out.proof # last.out.prover.proof
           /\ ~last.out.verifier.res

\* A proof of a blob of more than one chunk was verified with its evaluation
\* raised by one.
C25_Witness ==
    /\ last.op = "verify"
    /\ last.out.tampering = "eval_plus_one"
    /\ Len(last.out.blob.commitments) > 1
    /\ last.out.proof.combined_data_eval = FAdd(last.out.prover.proof.combined_data_eval, 1)

\* C26: a proof returned by prove is accepted when verified against the
\* combination of the blob's commitments under the same challenge; prover
\* and verifier derive the same evaluation point, from absorbing the
\* combined commitment and squeezing, and hand to open and to verify the
\* same sponge, as it is after that squeeze, with combined_data_eval
\* absorbed nowhere in it.
C26_HonestProofAccepted ==
    (last.op = "verify" /\ last.out.tampering = "none")
        => LET p == last.out.prover
               v == last.out.verifier
               absorbed == AbsorbG(<<>>, last.out.combined_data_commitment)
           IN /\ v.res
              /\ p.evaluation_point = v.evaluation_point
              /\ p.evaluation_point = Squeeze(absorbed).value
              /\ p.sponge_given = v.sponge_given
              /\ p.sponge_given = Squeeze(absorbed).sponge
              /\ \A k \in 1..Len(p.sponge_given) : p.sponge_given[k].ev # "absorb_fr"
              /\ p.proof.opening_proof.opens = last.out.combined_data_commitment

\* An untouched proof of a blob of more than one chunk was verified, under a
\* challenge other than zero and one.
C26_Witness ==
    /\ last.op = "verify"
    /\ last.out.tampering = "none"
    /\ Len(last.out.blob.commitments) > 1
    /\ last.out.challenge > 1
    /\ last.out.verifier.res

(* -------------------------- properties, the rest ----------------------- *)

\* C31: in the MIPS instantiation, new called with an environment that holds
\* no constraints or lookups stores for each selector exactly the
\* constraints and lookups of interpreting that one instruction, none of a
\* selector initialized before it, and leaves the environment empty.
C31_MIPSNewSeparatesSelectors ==
    last.op = "new"
        => LET made == MIPSNew(DomainSize, EmptyEnv)
           IN /\ \A s \in Selectors :
                    /\ made.trace[s].constraints
                          = InterpretInstruction(EmptyEnv, s).constraints
                    /\ made.trace[s].lookups = InterpretInstruction(EmptyEnv, s).lookups
                    /\ \A j \in 1..Len(made.trace[s].constraints) :
                          made.trace[s].constraints[j].selector = s
                    /\ \A j \in 1..Len(made.trace[s].lookups) :
                          made.trace[s].lookups[j].selector = s
              /\ \A k \in 0..N_SEL : MIPSEnvAfter(DomainSize, EmptyEnv, k) = EmptyEnv

\* new has run for more than one instruction, and the last one initialized
\* holds constraints.
C31_Witness ==
    /\ last.op = "new"
    /\ N_SEL > 1
    /\ circuit.trace[SelectorIter[N_SEL]].constraints # <<>>
    /\ circuit.trace[SelectorIter[N_SEL]].lookups # <<>>

C33_InCircuitIffPushedSinceReset ==
    /\ DomainSize > 0
    /\ last.op = "new" => \A s \in Selectors : ~InCircuit(circuit, s)
    /\ last.op = "push_row" => InCircuit(circuit, last.selector)
    /\ last.op = "reset" => ~InCircuit(circuit, last.selector)
    /\ \A s \in Selectors :
          /\ (~InCircuit(last.pre, s) /\ InCircuit(circuit, s))
                => last.op = "push_row" /\ last.selector = s
          /\ (InCircuit(last.pre, s) /\ ~InCircuit(circuit, s))
                => last.op = "reset" /\ last.selector = s

\* A padding operation or set_selector_column with a positive count ran on a
\* selector that had no row, and the selector is still out of the circuit.
C33_Witness ==
    /\ \/ last.op = "set_selector_column" /\ last.k > 0
       \/ last.op \in {"pad_with_row", "pad_with_zeros", "pad_dummy"}
    /\ ~InCircuit(last.pre, last.selector)
    /\ ~InCircuit(circuit, last.selector)
    /\ \E t \in Selectors : InCircuit(circuit, t)


\* The relation columns holding the rows rs[1..k] followed by n copies of
\* the row `fill`, over empty selector columns.
ColumnsOfRows(rs, k, fill, n) ==
    [i \in 1..N |->
        IF i <= N_REL
        THEN [r \in 1..(k + n) |-> IF r <= k THEN rs[r][i] ELSE fill[i]]
        ELSE <<>>]

\* c is the circuit after push_row(s, rs[1]), ..., push_row(s, rs[Len(rs)])
\* on a sub-trace just reset. It holds the rows rs in order; pad_dummy on
\* it pads with rs[1]; and the same goes for every row pushed next, until
\* domain_size rows are held, after which a push changes nothing.
RECURSIVE ReusableFrom(_, _, _)
ReusableFrom(c, s, rs) ==
    LET k == Len(rs)
    IN /\ Cols(c, s) = ColumnsOfRows(rs, k, Row(0), 0)
       /\ k >= 1 =>
             LET padded == PadDummy(c, s)
             IN /\ ~padded.panic
                /\ padded.ret = DomainSize - k
                /\ Cols(padded.circuit, s) = ColumnsOfRows(rs, k, rs[1], DomainSize - k)
       /\ \A row \in Rows :
             IF k < DomainSize
             THEN ReusableFrom(PushRow(c, s, row).circuit, s, Append(rs, row))
             ELSE PushRow(c, s, row).circuit = c

\* C34: a reset selector is fully reusable. After reset(s), whatever the
\* sub-trace held, for every sequence of domain_size + 1 rows: the first
\* domain_size push_row calls are stored in order, the next one is dropped,
\* and pad_dummy after any number k of them (1 <= k <= domain_size) pads
\* with the first row pushed after the reset.
C34_ResetSelectorIsReusable ==
    last.op = "reset" => ReusableFrom(circuit, last.selector, <<>>)

\* reset ran on a sub-trace that was full, with its selector columns set,
\* and whose first row is not the only row there is to push afterwards.
C34_Witness ==
    /\ last.op = "reset"
    /\ IsFull(last.pre, last.selector)
    /\ SelColLen(last.pre, last.selector) > 0
    /\ \E row \in Rows : row # RowAt(Cols(last.pre, last.selector), 1)
    /\ AllEmpty(circuit, last.selector)


\* Circuits that agree with c on the sub-trace of s and hold something else
\* for every other selector: a fresh sub-trace, a sub-trace with one row,
\* and the sub-trace of s itself.
OtherwiseDifferent(c, s) ==
    {[c EXCEPT !.trace = [t \in DOMAIN c.trace |-> IF t = s THEN c.trace[s] ELSE alt[t]]] :
        alt \in {[t \in DOMAIN c.trace |-> KeccakInit(c.domain_size, t)],
                 [t \in DOMAIN c.trace |->
                     TracePushRow(KeccakInit(c.domain_size, t), Row(1))],
                 [t \in DOMAIN c.trace |-> c.trace[s]]}}

\* C35: to_folding_pair(s, ...) does not depend on the other selectors: on
\* any circuit that agrees on the sub-trace of s and differs on the others,
\* with the same incoming sponge and domain, it yields the same instance,
\* the same witness and the same outgoing sponge.
C35_ToFoldingPairIgnoresOtherSelectors ==
    last.op = "to_folding_pair"
        => \A c2 \in OtherwiseDifferent(circuit, last.selector) :
              LET out2 == ToFoldingPair(c2, last.selector, last.fq_sponge, DomainSize)
              IN /\ out2.instance = last.out.instance
                 /\ out2.witness = last.out.witness
                 /\ out2.fq_sponge = last.out.fq_sponge

\* to_folding_pair ran on a selector holding rows while another selector
\* holds different columns, and none of the other circuits compared is the
\* circuit itself.
C35_Witness ==
    /\ last.op = "to_folding_pair"
    /\ InCircuit(circuit, last.selector)
    /\ \E t \in Selectors :
          /\ t # last.selector
          /\ InCircuit(circuit, t)
          /\ Cols(circuit, t) # Cols(circuit, last.selector)
    /\ circuit \notin OtherwiseDifferent(circuit, last.selector)


\* C36: in every reachable state the N_REL relation columns of each
\* sub-trace have one length, the one number_of_rows reads off column 0; so
\* the count a padding operation returns, domain_size minus the length of
\* column 0, is the number of rows every relation column was short of.
C36_RelationColumnsHaveTheRowCount ==
    /\ \A s \in Selectors : \A i \in RelCols :
          Len(Cols(circuit, s)[i]) = NumberOfRows(circuit, s)
    /\ (last.op \in PadOps /\ ~panicked /\ InCircuit(last.pre, last.selector))
          => \A i \in RelCols :
                /\ last.ret = DomainSize - Len(Cols(last.pre, last.selector)[i])
                /\ Len(Cols(circuit, last.selector)[i]) = DomainSize

\* A padding operation added rows to a sub-trace of several relation
\* columns that held some rows already.
C36_Witness ==
    /\ last.op \in PadOps
    /\ N_REL > 1
    /\ last.ret > 0
    /\ NumberOfRows(last.pre, last.selector) > 0
    /\ NumberOfRows(circuit, last.selector) = DomainSize
    /\ \E s \in Selectors : s # last.selector /\ NumberOfRows(circuit, s) \notin {0, DomainSize}

====
